---- MODULE Spec2Model ----
(***************************************************************************)
(* A model of playlist_generator.py: the album enumerator                  *)
(* (get_artist_albums), the track harvester (get_album_tracks), the        *)
(* playlist assembler (build_playlist) and the seed resolution of the      *)
(* main flow.  Each function has its own specification; the variables of   *)
(* the other functions stay at their idle values.                          *)
(*                                                                         *)
(* Strings whose content matters (track names, artist display names) are   *)
(* sequences of one-character strings, so that lower() and strip() are     *)
(* computed.  Identifiers are opaque strings; "" is the absent/falsy id.   *)
(***************************************************************************)
EXTENDS Integers, Sequences, FiniteSets, TLC

\* Besides the code's own variables the state keeps a record of what happened:
\* requests (the page requests issued, with the number of ids collected at the
\* time), album_repeat (a page repeated an id of an earlier page), received (the
\* items of the pages received), track_pages (their number), artist_pool (what
\* artist_pool(aid) returned), taken_from (the pool each playlist entry was
\* popped from), sweep_len (len(playlist) when the current sweep began),
\* entered_names (the names as entered) and passed_ids (the seed ids handed to
\* build_playlist).
VARIABLES
  \* get_artist_albums
  artist_id, limit, album_ids, album_seen, requests, album_repeat, a_pc,
  \* get_album_tracks
  allowed_artist_ids, solo_only, out, received, track_pages, t_pc,
  \* build_playlist
  seed_artist_ids, target_size, shuffle, artist_pool, pools, seen, seen_names,
  playlist, contributed, per_artist_cap, made_progress, turn, taken_from,
  sweep_len, result, b_pc,
  \* main flow
  entered_names, seed_names, seed_ids, not_found, name_idx, passed_ids, m_pc

albumVars == <<artist_id, limit, album_ids, album_seen, requests, album_repeat,
               a_pc>>
trackVars == <<allowed_artist_ids, solo_only, out, received, track_pages, t_pc>>
buildVars == <<seed_artist_ids, target_size, shuffle, artist_pool, pools, seen,
               seen_names, playlist, contributed, per_artist_cap, made_progress,
               turn, taken_from, sweep_len, result, b_pc>>
mainVars  == <<entered_names, seed_names, seed_ids, not_found, name_idx,
               passed_ids, m_pc>>
vars == <<albumVars, trackVars, buildVars, mainVars>>

None == "None"

\* an Optional[Set[str]] argument: None, or a set of ids
NotGiven == [given |-> FALSE, ids |-> {}]
Given(ids) == [given |-> TRUE, ids |-> ids]

Max(a, b) == IF a >= b THEN a ELSE b
Min(a, b) == IF a <= b THEN a ELSE b

\* ------------------------------------------------------------------ bounds
MaxPool == 2        \* longest candidate pool of one of several seed artists
MaxSinglePool == 4  \* longest candidate pool of a single seed artist
MaxSeeds == 2       \* longest seed list
MaxTarget == 3      \* largest target_size (the smallest is -1)
MaxPerArtist == 2   \* scenario runs: target_size is n * k, k up to this
MaxPageLen == 2     \* most items on one catalog page
MaxPages == 2       \* most page requests of one enumeration / harvest
MaxLimit == 3       \* largest small limit of get_artist_albums
MaxNames == 6       \* most artist names entered in the main flow

Artists == {"A1", "A2"}

\* ------------------------------------------------- str.lower / str.strip
Whitespace == {" ", "\t"}

LowerChar(c) ==
  CASE c = "S" -> "s" [] c = "O" -> "o" [] c = "T" -> "t" [] c = "U" -> "u"
    [] c = "A" -> "a" [] c = "N" -> "n" [] c = "B" -> "b" [] OTHER -> c

Lower(s) == [i \in 1..Len(s) |-> LowerChar(s[i])]

RECURSIVE LStrip(_)
LStrip(s) == IF s # <<>> /\ Head(s) \in Whitespace THEN LStrip(Tail(s)) ELSE s

RECURSIVE RStrip(_)
RStrip(s) ==
  IF s # <<>> /\ s[Len(s)] \in Whitespace THEN RStrip(SubSeq(s, 1, Len(s) - 1))
  ELSE s

Strip(s) == RStrip(LStrip(s))

\* ------------------------------------------------------------ Track records
\* The catalog's tracks.  A track id identifies one catalog track, so an id
\* always carries the same name and artist; distinct ids may carry the same
\* normalized name/artist (t1 and t2: a reissue).
TrackTable ==
  << [id |-> "t1", name |-> <<"S","o">>,         artist |-> <<"A","n">>],
     [id |-> "t2", name |-> <<" ","s","O"," ">>, artist |-> <<"a","N"," ">>],
     [id |-> "t3", name |-> <<"T","u">>,         artist |-> <<"A","n">>],
     [id |-> "t4", name |-> <<"T","u">>,         artist |-> <<"B","o">>],
     [id |-> "t5", name |-> <<"s","o"," ","b">>, artist |-> <<"B","o">>] >>

SeqsUpTo(S, n) == UNION {[1..k -> S] : k \in 0..n}

Range(s) == {s[i] : i \in 1..Len(s)}

\* python's s[:n]
PySliceTo(s, n) ==
  IF n >= 0 THEN SubSeq(s, 1, Min(n, Len(s)))
  ELSE SubSeq(s, 1, Max(0, Len(s) + n))

\* math.ceil(a / b) for b > 0
Ceil(a, b) == -((-a) \div b)

Perms(s) ==
  {[i \in 1..Len(s) |-> s[f[i]]] :
     f \in {g \in [1..Len(s) -> 1..Len(s)] : \A i, j \in 1..Len(s) : g[i] = g[j] => i = j}}

\* =========================================================== build_playlist
\* name_key = (tr.name.lower().strip(), tr.artist.lower().strip())
NameKey(tr) == <<Strip(Lower(tr.name)), Strip(Lower(tr.artist))>>

\* the id check alone: a same-named reissue passes
IsDuplicateIdOnly(tr, ids, keys) == tr.id \in ids

\* tr.id in seen or name_key in seen_names
IsDuplicate(tr, ids, keys) == tr.id \in ids \/ NameKey(tr) \in keys

\* a candidate the fill passes over: no id, or a duplicate
Skipped(tr, ids, keys) == tr.id = "" \/ IsDuplicate(tr, ids, keys)

\* a guard that never stops the fill
NeverFull(pl, t) == FALSE

\* len(playlist) >= target_size
Full(pl, t) == Len(pl) >= t

\* no division by the number of seed artists
PerArtistCapUndivided(t, n) == Max(1, t)

\* per_artist_cap = max(1, math.ceil(target_size / len(seed_artist_ids)))
PerArtistCap(t, n) == Max(1, Ceil(t, n))

\* the new track is put in front
AddTrackInFront(pl, tr) == <<tr>> \o pl

\* playlist.append(tr)
AddTrack(pl, tr) == Append(pl, tr)

\* only the front candidate is tried
PopOnce(pool, ids, keys) ==
  IF pool = <<>> THEN [rest |-> <<>>, found |-> FALSE, tr |-> None]
  ELSE IF Skipped(Head(pool), ids, keys)
       THEN [rest |-> Tail(pool), found |-> FALSE, tr |-> None]
       ELSE [rest |-> Tail(pool), found |-> TRUE, tr |-> Head(pool)]

\* while pools[aid]: tr = pools[aid].pop(0); skip it or take it and break
RECURSIVE PopUntil(_, _, _)
PopUntil(pool, ids, keys) ==
  IF pool = <<>> THEN [rest |-> <<>>, found |-> FALSE, tr |-> None]
  ELSE IF Skipped(Head(pool), ids, keys)
       THEN PopUntil(Tail(pool), ids, keys)
       ELSE [rest |-> Tail(pool), found |-> TRUE, tr |-> Head(pool)]

SeedSet == Range(seed_artist_ids)

\* what artist_pool(aid) can return: the concatenated per-album slices, in
\* catalog order or shuffled; tracks come from get_album_tracks, so each has an id
\* (t5 is left to the scenario runs, which need four distinct name keys)
PoolTracks == {tr \in Range(TrackTable) : tr.id # "t5"}
ArtistPools(n) == SeqsUpTo(PoolTracks, IF n = 1 THEN MaxSinglePool ELSE MaxPool)

SeedLists == SeqsUpTo(Artists, MaxSeeds)
TargetSizes == -1..MaxTarget

albumIdle ==
  /\ artist_id = None /\ limit = 0 /\ album_ids = <<>> /\ album_seen = {}
  /\ requests = <<>> /\ album_repeat = FALSE /\ a_pc = "idle"
trackIdle ==
  /\ allowed_artist_ids = NotGiven /\ solo_only = FALSE /\ out = <<>>
  /\ received = <<>> /\ track_pages = 0 /\ t_pc = "idle"
mainIdle ==
  /\ entered_names = <<>> /\ seed_names = <<>> /\ seed_ids = <<>>
  /\ not_found = <<>> /\ name_idx = 0
  /\ passed_ids = <<>> /\ m_pc = "idle"
buildIdle ==
  /\ seed_artist_ids = <<>> /\ target_size = 0 /\ shuffle = FALSE
  /\ artist_pool = <<>> /\ pools = <<>> /\ seen = {} /\ seen_names = {}
  /\ playlist = <<>> /\ contributed = <<>> /\ per_artist_cap = 0
  /\ made_progress = FALSE /\ turn = 0 /\ taken_from = <<>> /\ sweep_len = -1
  /\ result = <<>>
  /\ b_pc = "idle"

buildStart ==
  /\ pools = <<>> /\ seen = {} /\ seen_names = {} /\ playlist = <<>>
  /\ contributed = <<>> /\ per_artist_cap = 0 /\ made_progress = FALSE
  /\ turn = 0 /\ taken_from = <<>> /\ sweep_len = -1
  /\ result = <<>> /\ b_pc = "start"

\* before the call
InitBuild ==
  /\ seed_artist_ids = <<>> /\ target_size = 0 /\ shuffle = FALSE
  /\ artist_pool = <<>> /\ pools = <<>> /\ seen = {} /\ seen_names = {}
  /\ playlist = <<>> /\ contributed = <<>> /\ per_artist_cap = 0
  /\ made_progress = FALSE /\ turn = 0 /\ taken_from = <<>> /\ sweep_len = -1
  /\ result = <<>>
  /\ b_pc = "new"
  /\ albumIdle /\ trackIdle /\ mainIdle

\* a call of build_playlist: any seed list, target size and shuffle setting, and
\* any pools the catalog gives the seed artists
Call ==
  /\ b_pc = "new"
  /\ seed_artist_ids' \in SeedLists
  /\ target_size' \in TargetSizes
  /\ shuffle' \in BOOLEAN
  /\ artist_pool' \in [Range(seed_artist_ids') -> ArtistPools(Len(seed_artist_ids'))]
  /\ b_pc' = "start"
  /\ UNCHANGED <<pools, seen, seen_names, playlist, contributed, per_artist_cap,
                 made_progress, turn, taken_from, result>>
  /\ UNCHANGED sweep_len
  /\ UNCHANGED <<albumVars, trackVars, mainVars>>

\* if not seed_artist_ids: return []
ReturnEmpty ==
  /\ b_pc = "start" /\ seed_artist_ids = <<>>
  /\ result' = <<>> /\ b_pc' = "done"
  /\ UNCHANGED <<seed_artist_ids, target_size, shuffle, artist_pool, pools, seen,
                 seen_names, playlist, contributed, per_artist_cap,
                 made_progress, turn, taken_from>>
  /\ UNCHANGED sweep_len
  /\ UNCHANGED <<albumVars, trackVars, mainVars>>

\* pools = {aid: artist_pool(aid, solo_only) for aid in seed_artist_ids}; the
\* empty seen, playlist, seen_names; the branch on len(seed_artist_ids)
BuildPools ==
  /\ b_pc = "start" /\ seed_artist_ids # <<>>
  /\ pools' = [aid \in SeedSet |-> artist_pool[aid]]
  /\ seen' = {} /\ seen_names' = {} /\ playlist' = <<>> /\ taken_from' = <<>>
  /\ turn' = 1
  /\ b_pc' = IF Len(seed_artist_ids) = 1 THEN "single" ELSE "multi"
  /\ UNCHANGED <<seed_artist_ids, target_size, shuffle, artist_pool, contributed,
                 per_artist_cap, made_progress, result>>
  /\ UNCHANGED sweep_len
  /\ UNCHANGED <<albumVars, trackVars, mainVars>>

\* one iteration of: for tr in pools[aid] (the single-seed branch)
SingleIterate ==
  /\ b_pc = "single"
  /\ LET aid == seed_artist_ids[1] IN
     /\ turn <= Len(pools[aid])
     /\ ~Full(playlist, target_size)
     /\ LET tr == pools[aid][turn] IN
        IF Skipped(tr, seen, seen_names)
        THEN UNCHANGED <<seen, seen_names, playlist, taken_from>>
        ELSE /\ seen' = seen \cup {tr.id}
             /\ seen_names' = seen_names \cup {NameKey(tr)}
             /\ playlist' = AddTrack(playlist, tr)
             /\ taken_from' = Append(taken_from, aid)
  /\ turn' = turn + 1
  /\ UNCHANGED <<seed_artist_ids, target_size, shuffle, artist_pool, pools,
                 contributed, per_artist_cap, made_progress, result, b_pc>>
  /\ UNCHANGED sweep_len
  /\ UNCHANGED <<albumVars, trackVars, mainVars>>

\* the loop ends (pool exhausted, or the break at target_size):
\* return playlist[:target_size]
SingleReturn ==
  /\ b_pc = "single"
  /\ \/ turn > Len(pools[seed_artist_ids[1]])
     \/ Full(playlist, target_size)
  /\ result' = PySliceTo(playlist, target_size)
  /\ b_pc' = "done"
  /\ UNCHANGED <<seed_artist_ids, target_size, shuffle, artist_pool, pools, seen,
                 seen_names, playlist, contributed, per_artist_cap,
                 made_progress, turn, taken_from>>
  /\ UNCHANGED sweep_len
  /\ UNCHANGED <<albumVars, trackVars, mainVars>>

\* per_artist_cap, contributed, made_progress = True
MultiInit ==
  /\ b_pc = "multi"
  /\ per_artist_cap' = PerArtistCap(target_size, Len(seed_artist_ids))
  /\ contributed' = [aid \in SeedSet |-> 0]
  /\ made_progress' = TRUE
  /\ b_pc' = "while"
  /\ UNCHANGED <<seed_artist_ids, target_size, shuffle, artist_pool, pools, seen,
                 seen_names, playlist, turn, taken_from, result>>
  /\ UNCHANGED sweep_len
  /\ UNCHANGED <<albumVars, trackVars, mainVars>>

\* the progress flag is not consulted
LoopContinuesWithoutProgress == ~Full(playlist, target_size)

\* len(playlist) < target_size and made_progress
LoopContinues == ~Full(playlist, target_size) /\ made_progress

\* while len(playlist) < target_size and made_progress: made_progress = False
SweepBegin ==
  /\ b_pc = "while"
  /\ LoopContinues
  /\ made_progress' = FALSE
  /\ turn' = 1
  /\ b_pc' = "for"
  /\ UNCHANGED <<seed_artist_ids, target_size, shuffle, artist_pool, pools, seen,
                 seen_names, playlist, contributed, per_artist_cap, taken_from,
                 result>>
  /\ sweep_len' = Len(playlist)
  /\ UNCHANGED <<albumVars, trackVars, mainVars>>

\* the while condition fails: the loop is left
LoopExit ==
  /\ b_pc = "while"
  /\ ~LoopContinues
  /\ b_pc' = "shuffle"
  /\ UNCHANGED <<seed_artist_ids, target_size, shuffle, artist_pool, pools, seen,
                 seen_names, playlist, contributed, per_artist_cap,
                 made_progress, turn, taken_from, result>>
  /\ UNCHANGED sweep_len
  /\ UNCHANGED <<albumVars, trackVars, mainVars>>

\* one artist's turn of: for aid in seed_artist_ids: the continue of an artist
\* at its cap, or else the inner while loop up to its break or the empty pool
ArtistTurn ==
  /\ b_pc = "for"
  /\ turn <= Len(seed_artist_ids)
  /\ ~Full(playlist, target_size)
  /\ \E aid \in {seed_artist_ids[turn]} :
     \E r \in {IF contributed[aid] >= per_artist_cap
               THEN [rest |-> pools[aid], found |-> FALSE, tr |-> None]
               ELSE PopUntil(pools[aid], seen, seen_names)} :
       /\ pools' = [pools EXCEPT ![aid] = r.rest]
       /\ IF r.found
          THEN /\ seen' = seen \cup {r.tr.id}
               /\ seen_names' = seen_names \cup {NameKey(r.tr)}
               /\ playlist' = AddTrack(playlist, r.tr)
               /\ contributed' = [contributed EXCEPT ![aid] = @ + 1]
               /\ made_progress' = TRUE
               /\ taken_from' = Append(taken_from, aid)
          ELSE UNCHANGED <<seen, seen_names, playlist, contributed,
                           made_progress, taken_from>>
  /\ turn' = turn + 1
  /\ UNCHANGED <<seed_artist_ids, target_size, shuffle, artist_pool,
                 per_artist_cap, result, b_pc>>
  /\ UNCHANGED sweep_len
  /\ UNCHANGED <<albumVars, trackVars, mainVars>>

\* the sweep ends: the seed list is exhausted, or the break at target_size
SweepEnd ==
  /\ b_pc = "for"
  /\ \/ turn > Len(seed_artist_ids)
     \/ Full(playlist, target_size)
  /\ b_pc' = "while"
  /\ UNCHANGED <<seed_artist_ids, target_size, shuffle, artist_pool, pools, seen,
                 seen_names, playlist, contributed, per_artist_cap,
                 made_progress, turn, taken_from, result>>
  /\ UNCHANGED sweep_len
  /\ UNCHANGED <<albumVars, trackVars, mainVars>>

\* if shuffle: random.shuffle(playlist); return playlist[:target_size]
ShuffleReturn ==
  /\ b_pc = "shuffle"
  /\ \E p \in (IF shuffle THEN Perms(playlist) ELSE {playlist}) :
       /\ playlist' = p
       /\ result' = PySliceTo(p, target_size)
  /\ b_pc' = "done"
  /\ UNCHANGED <<seed_artist_ids, target_size, shuffle, artist_pool, pools, seen,
                 seen_names, contributed, per_artist_cap, made_progress, turn,
                 taken_from>>
  /\ UNCHANGED sweep_len
  /\ UNCHANGED <<albumVars, trackVars, mainVars>>

NextMulti ==
  \/ BuildPools \/ MultiInit \/ SweepBegin \/ LoopExit \/ ArtistTurn
  \/ SweepEnd \/ ShuffleReturn

Next ==
  \/ Call \/ ReturnEmpty \/ BuildPools \/ SingleIterate \/ SingleReturn \/ MultiInit
  \/ SweepBegin \/ LoopExit \/ ArtistTurn \/ SweepEnd \/ ShuffleReturn

Spec == InitBuild /\ [][Next]_vars

\* the assembler is sequential code: it keeps running until it returns
FairSpec == Spec /\ WF_vars(Next)

\* --------------------------------------------------- the scenario runs
\* n distinct seed artists, target_size a positive multiple of n, and for each
\* artist a pool of at least target_size tracks that differ pairwise in id and
\* in name key
Injective(s) == \A i, j \in 1..Len(s) : s[i] = s[j] => i = j

ScenarioPools(t) ==
  {p \in UNION {[1..k -> Range(TrackTable)] : k \in t..4} :
     \A i, j \in 1..Len(p) :
        (p[i].id = p[j].id \/ NameKey(p[i]) = NameKey(p[j])) => i = j}

InitScenario ==
  /\ seed_artist_ids \in {s \in SeedLists : Len(s) >= 2 /\ Injective(s)}
  /\ target_size \in {Len(seed_artist_ids) * k : k \in 1..MaxPerArtist}
  /\ shuffle \in BOOLEAN
  /\ artist_pool \in [SeedSet -> ScenarioPools(target_size)]
  /\ buildStart
  /\ albumIdle /\ trackIdle /\ mainIdle

SpecScenario == InitScenario /\ [][NextMulti]_vars

\* ------------------------------------------------ claims on build_playlist
Count(s, x) == Cardinality({i \in 1..Len(s) : s[i] = x})

\* the normalized key of the data model: trimmed, lowercased name and artist
NormalizedKey(tr) == <<Lower(Strip(tr.name)), Lower(Strip(tr.artist))>>

Returned == b_pc = "done"

\* C1: every returned playlist has at most target_size entries (a target_size
\* below zero leaves room for none), and it is empty when seed_artist_ids is
\* empty or target_size <= 0.
PlaylistWithinTarget ==
  Returned =>
    /\ target_size >= 0 => Len(result) <= target_size
    /\ (seed_artist_ids = <<>> \/ target_size <= 0) => result = <<>>

\* C1 witness: a call returned exactly target_size >= 2 tracks and left
\* candidates unused in some pool.
PlaylistFilledToTarget ==
  /\ Returned /\ target_size >= 2 /\ Len(result) = target_size
  /\ \E aid \in SeedSet :
       IF Len(seed_artist_ids) = 1 THEN turn <= Len(pools[aid])
       ELSE \E k \in 1..Len(pools[aid]) :
              ~IsDuplicate(pools[aid][k], seen, seen_names)

\* C2: no two entries of a returned playlist share an id, and no two share the
\* normalized name/artist key.
NoDuplicateEntries ==
  Returned =>
    \A i, j \in 1..Len(result) :
      i # j => /\ result[i].id # result[j].id
               /\ NormalizedKey(result[i]) # NormalizedKey(result[j])

\* C2 witness: two artists' pools held the same track and a same-named reissue
\* of it under another id, and the returned playlist has two or more entries.
ReissueAcrossPools ==
  /\ Returned /\ Len(seed_artist_ids) >= 2 /\ Len(result) >= 2
  /\ \E a, b \in SeedSet :
       /\ a # b
       /\ \E i \in 1..Len(artist_pool[a]), j \in 1..Len(artist_pool[b]) :
            /\ artist_pool[a][i].id # artist_pool[b][j].id
            /\ NormalizedKey(artist_pool[a][i]) = NormalizedKey(artist_pool[b][j])
       /\ \E i \in 1..Len(artist_pool[a]), j \in 1..Len(artist_pool[b]) :
            artist_pool[a][i].id = artist_pool[b][j].id

\* C3: in the multi-seed branch, at every point of the fill and in the result,
\* the number of tracks taken from one artist's pool is at most
\* ceil(target_size / artist_count) (none when that is not positive).
ClaimedCap == Max(0, Ceil(target_size, Len(seed_artist_ids)))

ContributionWithinCap ==
  Len(seed_artist_ids) >= 2 =>
    \A aid \in SeedSet : Count(taken_from, aid) <= ClaimedCap

\* C3 witness: one artist's pool ran out below the cap, another artist stopped at
\* the cap with candidates left, and the playlist ended short of target_size.
QuotaNotRedistributed ==
  /\ Returned /\ Len(seed_artist_ids) >= 2 /\ Len(result) < target_size
  /\ \E a, b \in SeedSet :
       /\ Count(taken_from, a) = ClaimedCap /\ pools[a] # <<>>
       /\ \E k \in 1..Len(pools[a]) : ~IsDuplicate(pools[a][k], seen, seen_names)
       /\ Count(taken_from, b) < ClaimedCap /\ pools[b] = <<>>

\* C4: with one seed artist the result is the first target_size tracks of the
\* pool with every track deleted whose id or normalized key occurred earlier in
\* the pool, in pool order.
FirstOccurrence(pool, i) ==
  \A j \in 1..(i - 1) :
     /\ pool[j].id # pool[i].id
     /\ NormalizedKey(pool[j]) # NormalizedKey(pool[i])

RECURSIVE KeepFirstOccurrences(_, _)
KeepFirstOccurrences(pool, i) ==
  IF i > Len(pool) THEN <<>>
  ELSE (IF FirstOccurrence(pool, i) THEN <<pool[i]>> ELSE <<>>)
       \o KeepFirstOccurrences(pool, i + 1)

FirstN(s, n) == SubSeq(s, 1, Min(Max(n, 0), Len(s)))

EnoughDistinct(pool) ==
  Cardinality({NormalizedKey(pool[i]) : i \in 1..Len(pool)}) >= target_size

ScenarioPrecondition ==
  /\ Len(seed_artist_ids) >= 2 /\ Injective(seed_artist_ids)
  /\ target_size > 0 /\ target_size % Len(seed_artist_ids) = 0
  /\ \A aid \in SeedSet : EnoughDistinct(artist_pool[aid])

SweepNeedsProgress ==
  (b_pc = "while" /\ b_pc' = "for" /\ sweep_len >= 0) =>
     (Len(playlist) > sweep_len /\ Len(playlist) < target_size)

RoundRobinTerminates ==
  /\ <>(b_pc = "done")
  /\ [][SweepNeedsProgress]_vars

\* C8 witness: a multi-seed call returned after a sweep that appended nothing,
\* with the playlist short of target_size.
EndedBySweepWithoutProgress ==
  /\ Returned /\ Len(seed_artist_ids) >= 2 /\ ~made_progress
  /\ Len(result) < target_size /\ Len(result) >= 1

\* ======================================================== get_artist_albums
PageCap == 10

\* an item of an album page: its id ("" when absent) and its artists' ids
AlbumItems ==
  [id : {"", "al1", "al2", "al3"}, artists : {{"A1", "A2"}, {"A2"}}]

\* a page the catalog answers with: its items and whether it has a next cursor
AlbumPages ==
  [items : SeqsUpTo(AlbumItems, MaxPageLen), next : BOOLEAN, falsy : {FALSE}]

\* an answer that is None or an empty dict
NoResults == [items |-> <<>>, next |-> FALSE, falsy |-> TRUE]

Limits == (-1..MaxLimit) \cup {PageCap + 1}

\* the page cap is not applied
FirstPageSizeUncapped(lim) == lim

\* limit=min(10, limit) of the sp.artist_albums request
FirstPageSize(lim) == Min(PageCap, lim)

\* sp.next(results) follows the page's cursor; the code gives it no page size,
\* and the cursor repeats the page size of the request that produced the page
CursorPageSize(reqs) == reqs[Len(reqs)].size

\* the loop goes on over the page after limit ids are collected
RECURSIVE ScanAlbumItemsNoBreak(_, _, _, _, _)
ScanAlbumItemsNoBreak(items, ids, sn, aid, lim) ==
  IF items = <<>> THEN [ids |-> ids, seen |-> sn]
  ELSE IF aid \in Head(items).artists /\ Head(items).id # ""
          /\ Head(items).id \notin sn
       THEN ScanAlbumItemsNoBreak(Tail(items), Append(ids, Head(items).id),
                                  sn \cup {Head(items).id}, aid, lim)
       ELSE ScanAlbumItemsNoBreak(Tail(items), ids, sn, aid, lim)

\* the for loop over one page: an item of another artist is passed over, an
\* item with a new id is collected, and the loop breaks at limit
RECURSIVE ScanAlbumItems(_, _, _, _, _)
ScanAlbumItems(items, ids, sn, aid, lim) ==
  IF items = <<>> THEN [ids |-> ids, seen |-> sn]
  ELSE IF aid \notin Head(items).artists
       THEN ScanAlbumItems(Tail(items), ids, sn, aid, lim)
       ELSE IF Head(items).id # "" /\ Head(items).id \notin sn
            THEN IF Len(ids) + 1 >= lim
                 THEN [ids |-> Append(ids, Head(items).id),
                       seen |-> sn \cup {Head(items).id}]
                 ELSE ScanAlbumItems(Tail(items), Append(ids, Head(items).id),
                                     sn \cup {Head(items).id}, aid, lim)
            ELSE ScanAlbumItems(Tail(items), ids, sn, aid, lim)

InitAlbums ==
  /\ artist_id = None /\ limit = 0 /\ album_ids = <<>> /\ album_seen = {}
  /\ requests = <<>> /\ album_repeat = FALSE /\ a_pc = "new"
  /\ buildIdle /\ trackIdle /\ mainIdle

\* the call: album_ids = [], seen = set(), and the sp.artist_albums request
AlbumsCall ==
  /\ a_pc = "new"
  /\ artist_id' \in Artists
  /\ limit' \in Limits
  /\ album_ids' = <<>> /\ album_seen' = {}
  /\ requests' = <<[via |-> "artist_albums", size |-> FirstPageSize(limit'),
                    collected |-> 0]>>
  /\ a_pc' = "await"
  /\ UNCHANGED album_repeat
  /\ UNCHANGED <<buildVars, trackVars, mainVars>>

\* the catalog's answer fails the while condition (no results, or
\* len(album_ids) < limit is false): return album_ids
AlbumsReturn ==
  /\ a_pc = "await"
  /\ \E results \in AlbumPages \cup {NoResults} :
       results.falsy \/ ~(Len(album_ids) < limit)
  /\ a_pc' = "done"
  /\ UNCHANGED <<artist_id, limit, album_ids, album_seen, requests, album_repeat>>
  /\ UNCHANGED <<buildVars, trackVars, mainVars>>

\* one pass of the while loop over the page the catalog answered with, up to
\* results = sp.next(results) if results.get("next") and len(album_ids) < limit
\* else None
AlbumsPage ==
  /\ a_pc = "await"
  /\ Len(album_ids) < limit
  /\ \E results \in AlbumPages :
       /\ Len(requests) = MaxPages => ~results.next
       /\ \E r \in {ScanAlbumItems(results.items, album_ids, album_seen,
                                   artist_id, limit)} :
            /\ album_ids' = r.ids
            /\ album_seen' = r.seen
            /\ IF results.next /\ Len(r.ids) < limit
               THEN /\ requests' = Append(requests,
                                     [via |-> "next",
                                      size |-> CursorPageSize(requests),
                                      collected |-> Len(r.ids)])
                    /\ a_pc' = "await"
               ELSE /\ UNCHANGED requests
                    /\ a_pc' = "done"
       /\ album_repeat' =
            (album_repeat \/ \E i \in 1..Len(results.items) :
                                /\ artist_id \in results.items[i].artists
                                /\ results.items[i].id \in album_seen)
  /\ UNCHANGED <<artist_id, limit>>
  /\ UNCHANGED <<buildVars, trackVars, mainVars>>

NextAlbums == AlbumsCall \/ AlbumsReturn \/ AlbumsPage

SpecAlbums == InitAlbums /\ [][NextAlbums]_vars

\* C6: get_artist_albums never holds, and so never returns, more than limit
\* album ids (none when limit is not positive), and never the same id twice.
AlbumsWithinLimit ==
  /\ limit >= 0 => Len(album_ids) <= limit
  /\ limit <= 0 => album_ids = <<>>
  /\ Injective(album_ids)

\* C6 witness: an enumeration over two pages, the second repeating an album id
\* of the first, returned exactly limit >= 2 ids.
AlbumsFilledOverTwoPages ==
  /\ a_pc = "done" /\ limit >= 2 /\ Len(album_ids) = limit
  /\ Len(requests) = 2 /\ album_repeat

\* C9 as claimed: every page request asks for min(10, limit - collected so far).
PageSizeIsRemainingQuota ==
  \A i \in 1..Len(requests) :
     requests[i].size = Min(PageCap, limit - requests[i].collected)

\* C9 amended: the first request asks for min(10, limit), and every request
\* through the next-page cursor carries that same page size, whatever has been
\* collected.
PageSizeIsFirstPageSize ==
  \A i \in 1..Len(requests) :
     /\ requests[i].size = Min(PageCap, limit)
     /\ requests[i].via = (IF i = 1 THEN "artist_albums" ELSE "next")

\* C9 witness: a follow-up request was issued after albums had been collected.
FollowUpAfterCollecting ==
  /\ Len(requests) = 2 /\ requests[2].via = "next" /\ requests[2].collected >= 1
  /\ requests[2].size # Min(PageCap, limit - requests[2].collected)

\* ========================================================= get_album_tracks
\* an item of a track page: its id ("" when absent) and the ids of its artists
\* ("" for an artist entry without id)
TrackItems ==
  [id : {"", "t1"}, artists : {{}, {"A1"}, {"A2"}, {"A1", "A2"}, {"A1", ""}}]

TrackPages ==
  [items : SeqsUpTo(TrackItems, MaxPageLen), next : BOOLEAN, falsy : {FALSE}]

AllowedArguments == {NotGiven, Given({}), Given({"A1"}), Given({"A1", "A2"})}

\* track_artist_ids = {a.get("id") for a in t.get("artists", []) if a.get("id")}
TrackArtistIds(t) == t.artists \ {""}

\* solo_only is not looked at
KeepsTrackIgnoringSolo(t, allowed, solo) ==
  /\ t.id # ""
  /\ ~(allowed.given /\ TrackArtistIds(t) \cap allowed.ids = {})

\* the three continue statements of the item loop
KeepsTrack(t, allowed, solo) ==
  /\ t.id # ""
  /\ ~(allowed.given /\ TrackArtistIds(t) \cap allowed.ids = {})
  /\ ~(solo /\ allowed.given /\ TrackArtistIds(t) # allowed.ids)

\* the for loop over one page: out.append(Track(...)) for each item kept
RECURSIVE HarvestItems(_, _, _)
HarvestItems(items, allowed, solo) ==
  IF items = <<>> THEN <<>>
  ELSE (IF KeepsTrack(Head(items), allowed, solo) THEN <<Head(items)>> ELSE <<>>)
       \o HarvestItems(Tail(items), allowed, solo)

InitTracks ==
  /\ allowed_artist_ids = NotGiven /\ solo_only = FALSE /\ out = <<>>
  /\ received = <<>> /\ track_pages = 0 /\ t_pc = "new"
  /\ albumIdle /\ buildIdle /\ mainIdle

\* the call: out = [] and the sp.album_tracks request
TracksCall ==
  /\ t_pc = "new"
  /\ allowed_artist_ids' \in AllowedArguments
  /\ solo_only' \in BOOLEAN
  /\ out' = <<>>
  /\ t_pc' = "await"
  /\ UNCHANGED <<received, track_pages>>
  /\ UNCHANGED <<albumVars, buildVars, mainVars>>

\* the catalog answers with no results: return out
TracksReturn ==
  /\ t_pc = "await"
  /\ \E results \in {NoResults} : results.falsy
  /\ t_pc' = "done"
  /\ UNCHANGED <<allowed_artist_ids, solo_only, out, received, track_pages>>
  /\ UNCHANGED <<albumVars, buildVars, mainVars>>

\* one pass of the while loop over the page the catalog answered with, up to
\* results = sp.next(results) if results.get("next") else None
TracksPage ==
  /\ t_pc = "await"
  /\ \E results \in TrackPages :
       /\ track_pages + 1 = MaxPages => ~results.next
       /\ out' = out \o HarvestItems(results.items, allowed_artist_ids, solo_only)
       /\ received' = received \o results.items
       /\ t_pc' = IF results.next THEN "await" ELSE "done"
  /\ track_pages' = track_pages + 1
  /\ UNCHANGED <<allowed_artist_ids, solo_only>>
  /\ UNCHANGED <<albumVars, buildVars, mainVars>>

NextTracks == TracksCall \/ TracksReturn \/ TracksPage

SpecTracks == InitTracks /\ [][NextTracks]_vars

\* C7: the tracks returned are, in page order, exactly the received items that
\* have an id and pass the artist filter (intersection with allowed_artist_ids
\* when given; equality with it when solo_only is set too); with solo_only and
\* allowed_artist_ids = {A1}, no {A1, A2} item is returned and every item with
\* an id credited to exactly {A1} is.
PassesArtistFilter(t) ==
  /\ t.id # ""
  /\ allowed_artist_ids.given =>
       /\ TrackArtistIds(t) \cap allowed_artist_ids.ids # {}
       /\ solo_only => TrackArtistIds(t) = allowed_artist_ids.ids

HarvestIsFilteredListing ==
  t_pc = "done" =>
    /\ out = SelectSeq(received, PassesArtistFilter)
    /\ (solo_only /\ allowed_artist_ids = Given({"A1"})) =>
         /\ \A i \in 1..Len(out) : TrackArtistIds(out[i]) # {"A1", "A2"}
         /\ \A i \in 1..Len(received) :
              (received[i].id # "" /\ TrackArtistIds(received[i]) = {"A1"})
                 => received[i] \in Range(out)

\* C7 witness: a solo_only harvest for {A1} over two pages that received a
\* collaboration of A1 and A2, a track of A1 alone and an item without id.
SoloHarvestOverTwoPages ==
  /\ t_pc = "done" /\ track_pages = 2 /\ solo_only
  /\ allowed_artist_ids = Given({"A1"})
  /\ Len(out) >= 1 /\ Len(out) < Len(received)
  /\ \E i, j, k \in 1..Len(received) :
       /\ received[i].id # "" /\ received[i].artists = {"A1", "A2"}
       /\ received[j].id # "" /\ received[j].artists = {"A1"}
       /\ received[k].id = ""

\* ================================================================ main flow
MAX_ARTISTS == 5

\* the fields of the comma-separated input line
InputFields == {<<"a">>, <<" ", "b">>, <<"z">>, <<" ">>}

\* sp.search(q=artist_name, type="artist", limit=10): the artists found
SearchItems(name) ==
  CASE name = <<"a">> ->
         << [id |-> "A9", name |-> <<"a", "a">>, popularity |-> 9],
            [id |-> "A1", name |-> <<"A">>, popularity |-> 1] >>
    [] name = <<"b">> ->
         << [id |-> "A3", name |-> <<"b", "b">>, popularity |-> 3],
            [id |-> "A2", name |-> <<"b", "o">>, popularity |-> 7],
            [id |-> "A4", name |-> <<"o", "b">>, popularity |-> 7] >>
    [] OTHER -> <<>>

\* max(items, key=popularity): the first item of the highest popularity
MostPopular(items) ==
  items[CHOOSE i \in 1..Len(items) :
          /\ \A j \in 1..Len(items) : items[j].popularity <= items[i].popularity
          /\ \A j \in 1..(i - 1) : items[j].popularity < items[i].popularity]

\* search_artist_id: the id of the first exact (case-insensitive) name match,
\* else of the most popular artist found; None when nothing is found
SearchArtistId(name) ==
  LET items == SearchItems(name)
      exact == {i \in 1..Len(items) : Lower(items[i].name) = Lower(name)}
  IN IF items = <<>> THEN None
     ELSE IF exact # {}
          THEN items[CHOOSE i \in exact : \A j \in exact : i <= j].id
          ELSE MostPopular(items).id

\* [s.strip() for s in seed_names if s.strip()]
RECURSIVE StripFields(_)
StripFields(fields) ==
  IF fields = <<>> THEN <<>>
  ELSE (IF Strip(Head(fields)) # <<>> THEN <<Strip(Head(fields))>> ELSE <<>>)
       \o StripFields(Tail(fields))

InitMain ==
  /\ entered_names = <<>> /\ seed_names = <<>> /\ seed_ids = <<>>
  /\ not_found = <<>> /\ name_idx = 0 /\ passed_ids = <<>> /\ m_pc = "new"
  /\ albumIdle /\ trackIdle /\ buildIdle

\* the input line is read, split at the commas, stripped; seed_ids = [],
\* not_found = []
ReadNames ==
  /\ m_pc = "new"
  /\ \E fields \in SeqsUpTo(InputFields, MaxNames) :
       /\ seed_names' = StripFields(fields)
       /\ entered_names' = StripFields(fields)
  /\ seed_ids' = <<>> /\ not_found' = <<>>
  /\ name_idx' = 1
  /\ m_pc' = "resolve"
  /\ UNCHANGED passed_ids
  /\ UNCHANGED <<albumVars, trackVars, buildVars>>

\* one iteration of: for name in seed_names
ResolveName ==
  /\ m_pc = "resolve"
  /\ name_idx <= Len(seed_names)
  /\ \E found \in {SearchArtistId(seed_names[name_idx])} :
       IF found = None
       THEN /\ not_found' = Append(not_found, seed_names[name_idx])
            /\ UNCHANGED seed_ids
       ELSE /\ seed_ids' = Append(seed_ids, found)
            /\ UNCHANGED not_found
  /\ name_idx' = name_idx + 1
  /\ UNCHANGED <<entered_names, seed_names, passed_ids, m_pc>>
  /\ UNCHANGED <<albumVars, trackVars, buildVars>>

\* after the loop: if len(seed_names) > MAX_ARTISTS:
\* seed_names = seed_names[:MAX_ARTISTS]
TruncateNames ==
  /\ m_pc = "resolve"
  /\ name_idx > Len(seed_names)
  /\ seed_names' = IF Len(seed_names) > MAX_ARTISTS
                   THEN PySliceTo(seed_names, MAX_ARTISTS)
                   ELSE seed_names
  /\ m_pc' = "check"
  /\ UNCHANGED <<entered_names, seed_ids, not_found, name_idx, passed_ids>>
  /\ UNCHANGED <<albumVars, trackVars, buildVars>>

\* if not seed_ids: raise RuntimeError
NoArtistsFound ==
  /\ m_pc = "check"
  /\ seed_ids = <<>>
  /\ m_pc' = "raised"
  /\ UNCHANGED <<entered_names, seed_names, seed_ids, not_found, name_idx,
                 passed_ids>>
  /\ UNCHANGED <<albumVars, trackVars, buildVars>>

\* playlist = build_playlist(sp, seed_ids, ...)
CallBuildPlaylist ==
  /\ m_pc = "check"
  /\ seed_ids # <<>>
  /\ passed_ids' = seed_ids
  /\ m_pc' = "called"
  /\ UNCHANGED <<entered_names, seed_names, seed_ids, not_found, name_idx>>
  /\ UNCHANGED <<albumVars, trackVars, buildVars>>

NextMain ==
  \/ ReadNames \/ ResolveName \/ TruncateNames \/ NoArtistsFound
  \/ CallBuildPlaylist

SpecMain == InitMain /\ [][NextMain]_vars

\* the ids the names resolve to, in order, names not found left out
RECURSIVE ResolvedIds(_)
ResolvedIds(names) ==
  IF names = <<>> THEN <<>>
  ELSE (IF SearchArtistId(Head(names)) # None
        THEN <<SearchArtistId(Head(names))>> ELSE <<>>)
       \o ResolvedIds(Tail(names))

\* C10: the seed ids passed to build_playlist are at most MAX_ARTISTS, all
\* resolved from the first MAX_ARTISTS names entered.
OnlyFirstFiveNamesUsed ==
  m_pc = "called" =>
    /\ Len(passed_ids) <= MAX_ARTISTS
    /\ passed_ids = ResolvedIds(PySliceTo(entered_names, MAX_ARTISTS))
====
